---- MODULE Spec2Model ----
(***************************************************************************)
(* State-machine model of the rag-compliance-engine:                       *)
(*   - ingest.ts  (src/unnamed/part_001): load files, deduplicate,         *)
(*     delete/recreate the collection, add documents in batches;           *)
(*   - query.ts   (src/src/query.ts): askQuestion;                         *)
(*   - server.ts  (src/unnamed/part_002): POST /ask handler.               *)
(* The vector index (Chroma) and the answer model (OpenAI) are external    *)
(* collaborators: every outcome their contract allows is a separate        *)
(* nondeterministic branch.                                                *)
(***************************************************************************)
EXTENDS Integers, Sequences, FiniteSets, TLC

VARIABLES
    fsys,          \* the file system: sequence of [path, content] entries
    ipc,           \* position of the ingest() run
    files,         \* ingest: `files`, the paths to read, in order
    fidx,          \* ingest: number of files already read
    allStandards,  \* ingest: `allStandards`
    unique,        \* ingest: `unique` (values of the `seen` map, insertion order)
    handle,        \* ingest: `collection` handle returned by getOrCreateCollection
    i,             \* ingest: batch loop variable `i`
    adds,          \* history: the collection.add calls issued by the current run
    ierr,          \* what ingest().catch(console.error) received, or "none"
    run,           \* history: number of ingest runs started
    log,           \* the console output of the current run (console.log, console.error)
    mode,          \* history: "dir" or "file", how the current run resolved its input
    chroma,        \* the vector index: [exists, gen, docs]
    qpc,           \* position of the POST /ask request
    question,      \* the request's `question`
    qhandle,       \* askQuestion: `collection` handle
    results,       \* askQuestion: `results` of collection.query
    completion,    \* askQuestion: `completion` of the answer model
    modelCalls,    \* history: answer-model invocations made for the current request
    response,      \* the HTTP response sent, or NoResponse
    requests       \* history: number of requests received

vars == <<fsys, ipc, files, fidx, allStandards, unique, handle, i, adds, ierr, run, log,
          mode, chroma, qpc, question, qhandle, results, completion, modelCalls,
          response, requests>>

ingestVars == <<ipc, files, fidx, allStandards, unique, handle, i, adds, ierr, run, log, mode>>
queryVars == <<qpc, question, qhandle, results, completion, modelCalls, response, requests>>

-----------------------------------------------------------------------------
(* Program constants *)

TOP_K == 5
BATCH_SIZE == 100

(* Bounds of the model *)

MaxRuns == 2
MaxRequests == 1
MaxFileLen == 2
MaxBulk == 250

-----------------------------------------------------------------------------
(* JavaScript values *)

Undefined == "<undefined>"
Null == "<null>"

\* s.f for a string-valued field: undefined when the key is absent
Get(s, f) == IF f \in DOMAIN s THEN s[f] ELSE Undefined

\* Boolean(v) for a string, null or undefined
Truthy(v) == v # Undefined /\ v # Null /\ v # ""

RECURSIVE JoinStr(_, _)
\* Array.prototype.join
JoinStr(arr, sep) ==
    IF Len(arr) = 0 THEN ""
    ELSE IF Len(arr) = 1 THEN arr[1]
    ELSE arr[1] \o sep \o JoinStr(Tail(arr), sep)

\* s.f?.join(', ') for an array-valued optional field
JoinOpt(s, f) == IF f \in DOMAIN s THEN JoinStr(s[f], ", ") ELSE Undefined

\* a || b
OrElse(a, b) == IF Truthy(a) THEN a ELSE b

\* arr.filter(Boolean)
FilterTruthy(arr) == SelectSeq(arr, Truthy)

\* String.prototype.endsWith on a character sequence
EndsWith(f, suffix) ==
    /\ Len(f) >= Len(suffix)
    /\ SubSeq(f, Len(f) - Len(suffix) + 1, Len(f)) = suffix

\* String.prototype.includes on a character sequence
Includes(f, pat) ==
    \E k \in 0..(Len(f) - Len(pat)) : SubSeq(f, k + 1, k + Len(pat)) = pat

Min(a, b) == IF a < b THEN a ELSE b

\* arr.slice(from, to) with 0-based bounds
Slice(arr, from, to) == SubSeq(arr, from + 1, Min(to, Len(arr)))

Range(f) == {f[k] : k \in DOMAIN f}

\* some enumeration of a finite set
RECURSIVE SetToSeqOf(_)
SetToSeqOf(S) ==
    IF S = {} THEN <<>> ELSE LET x == CHOOSE y \in S : TRUE IN <<x>> \o SetToSeqOf(S \ {x})

-----------------------------------------------------------------------------
(* ingest.ts: normalisation *)

\* mutant: the parts are joined without filter(Boolean)
buildDocument_NoFilter(s) ==
    LET Shown(v) == IF v = Undefined \/ v = Null THEN "" ELSE v
    IN JoinStr(<< Shown(Get(s, "standardNumber")),
                  Shown(Get(s, "title")),
                  OrElse(Get(s, "scope"), ""),
                  OrElse(OrElse(JoinOpt(s, "icsClassifications"), JoinOpt(s, "icsCodes")), ""),
                  OrElse(Get(s, "category"), ""),
                  OrElse(Get(s, "subcategory"), ""),
                  IF Truthy(Get(s, "regulationReference"))
                      THEN "EU Regulation " \o s.regulationReference ELSE "" >>, "\n")

buildDocument(s) ==
    LET parts == <<
            Get(s, "standardNumber"),
            Get(s, "title"),
            OrElse(Get(s, "scope"), ""),
            OrElse(OrElse(JoinOpt(s, "icsClassifications"), JoinOpt(s, "icsCodes")), ""),
            OrElse(Get(s, "category"), ""),
            OrElse(Get(s, "subcategory"), ""),
            IF Truthy(Get(s, "regulationReference"))
                THEN "EU Regulation " \o s.regulationReference ELSE "" >>
    IN JoinStr(FilterTruthy(parts), "\n")

buildMetadata(s) ==
    [ standardNumber |-> Get(s, "standardNumber"),
      title |-> Get(s, "title"),
      source |-> OrElse(OrElse(Get(s, "sdoName"), Get(s, "source")), "unknown"),
      hasScope |-> IF Truthy(Get(s, "scope")) THEN "true" ELSE "false" ]

-----------------------------------------------------------------------------
(* ingest.ts: deduplication *)

\* index of the entry of `seen` with key id, 0 when there is none (seen.get)
SeenIndex(seen, id) ==
    IF \E k \in DOMAIN seen : Get(seen[k], "id") = id
        THEN CHOOSE k \in DOMAIN seen : Get(seen[k], "id") = id
        ELSE 0

\* mutant: a later record with scope text replaces whatever is kept
ShouldSet_AnyScoped(seen, s) ==
    SeenIndex(seen, Get(s, "id")) = 0 \/ Truthy(Get(s, "scope"))

\* mutant: the first-seen record is never replaced
ShouldSet_FirstOnly(seen, s) ==
    SeenIndex(seen, Get(s, "id")) = 0

\* mutant: the test on the two scopes is the wrong way round
ShouldSet_Inverted(seen, s) ==
    LET k == SeenIndex(seen, Get(s, "id"))
    IN k = 0 \/ (Truthy(Get(seen[k], "scope")) /\ ~Truthy(Get(s, "scope")))

\* the condition under which the loop body calls seen.set
ShouldSet(seen, s) ==
    LET k == SeenIndex(seen, Get(s, "id"))
    IN k = 0 \/ (~Truthy(Get(seen[k], "scope")) /\ Truthy(Get(s, "scope")))

\* one iteration of `for (const s of allStandards)`; a Map keeps the position
\* of a key that is set again
DedupStep(seen, s) ==
    LET k == SeenIndex(seen, Get(s, "id"))
    IN IF ShouldSet(seen, s)
          THEN IF k = 0 THEN Append(seen, s) ELSE [seen EXCEPT ![k] = s]
          ELSE seen

\* the loop over allStandards: DedupStep applied to the records from left to
\* right.  The input is halved rather than peeled, and the map after the left
\* half is computed (the test on its length) before the right half is entered,
\* so that a long input is folded at a depth logarithmic in its length.
RECURSIVE DedupFrom(_, _)
DedupFrom(seen, rest) ==
    IF rest = <<>> THEN seen
    ELSE IF Len(rest) = 1 THEN DedupStep(seen, rest[1])
    ELSE LET h == Len(rest) \div 2
             left == DedupFrom(seen, SubSeq(rest, 1, h))
         IN IF Len(left) >= 0
               THEN DedupFrom(left, SubSeq(rest, h + 1, Len(rest)))
               ELSE left

\* [...seen.values()] after the loop
Dedup(all) == DedupFrom(<<>>, all)

-----------------------------------------------------------------------------
(* ingest.ts: batching *)

\* the arguments of collection.add for one batch
AddArgs(batch) ==
    [ ids |-> [k \in DOMAIN batch |-> Get(batch[k], "id")],
      documents |-> [k \in DOMAIN batch |-> buildDocument(batch[k])],
      metadatas |-> [k \in DOMAIN batch |-> buildMetadata(batch[k])] ]

\* mutant: the slice runs one record into the next batch
BatchAt_Overlap(u, off) == Slice(u, off, off + BATCH_SIZE + 1)

\* unique.slice(i, i + BATCH_SIZE)
BatchAt(u, off) == Slice(u, off, off + BATCH_SIZE)

\* the values `i` takes in the batch loop
BatchOffsets(u) == {off \in 0..Len(u) : off < Len(u) /\ off % BATCH_SIZE = 0}

\* the IndexedDocuments the batch loop hands to the index for `unique` = u
IndexedDocs(u) ==
    UNION { LET a == AddArgs(BatchAt(u, off))
            IN { [id |-> a.ids[k], text |-> a.documents[k], attributes |-> a.metadatas[k]] :
                    k \in DOMAIN a.ids } : off \in BatchOffsets(u) }

-----------------------------------------------------------------------------
(* ingest.ts: input resolution *)

STANDARDS_DIR == <<"/", "d">>
JsonSuffix == <<".", "j", "s", "o", "n">>
NotFoundMark == <<"n", "o", "t", "-", "f", "o", "u", "n", "d">>

\* path.isAbsolute
IsAbsolute(p) == Len(p) > 0 /\ p[1] = "/"

\* path.join(dir, f)
PathJoin(d, f) == d \o <<"/">> \o f

\* the name of a directory entry of STANDARDS_DIR
BaseName(p) == SubSeq(p, Len(STANDARDS_DIR) + 2, Len(p))

InDir(p) == /\ Len(p) > Len(STANDARDS_DIR) + 1
            /\ SubSeq(p, 1, Len(STANDARDS_DIR) + 1) = STANDARDS_DIR \o <<"/">>

\* mutant: the filter keeps every .json file
DirFilter_SuffixOnly(f) == EndsWith(f, JsonSuffix)

\* the filter of directory mode
DirFilter(f) == EndsWith(f, JsonSuffix) /\ ~Includes(f, NotFoundMark)

\* fs.readdir(dir): the entry names, in the order the file system stores them
Readdir(fs) == [k \in 1..Len(SelectSeq(fs, LAMBDA e : InDir(e.path))) |->
                    BaseName(SelectSeq(fs, LAMBDA e : InDir(e.path))[k].path)]

\* files of directory mode for a listing
DirFiles(listing) ==
    [k \in 1..Len(SelectSeq(listing, DirFilter)) |->
        PathJoin(STANDARDS_DIR, SelectSeq(listing, DirFilter)[k])]

\* files of single-file mode
ArgFiles(fileArg) ==
    << IF IsAbsolute(fileArg) THEN fileArg ELSE PathJoin(STANDARDS_DIR, fileArg) >>

Exists(fs, p) == \E k \in DOMAIN fs : fs[k].path = p
Content(fs, p) == fs[CHOOSE k \in DOMAIN fs : fs[k].path = p].content

\* all orders of a sequence
Perms(s) ==
    { [k \in DOMAIN s |-> s[p[k]]] :
        p \in { q \in [DOMAIN s -> DOMAIN s] : \A a, b \in DOMAIN s : a # b => q[a] # q[b] } }

-----------------------------------------------------------------------------
(* Input data *)

RA_null == [id |-> "a", standardNumber |-> "ISO 1", title |-> "Alpha", scope |-> Null]
RA_empty == [id |-> "a", standardNumber |-> "ISO 1", title |-> "Alpha draft", scope |-> ""]
RA_scope == [id |-> "a", standardNumber |-> "ISO 1", title |-> "Alpha", scope |-> "Scope of alpha"]
RA_scope2 == [id |-> "a", standardNumber |-> "ISO 1:2020", title |-> "Alpha 2nd ed",
              scope |-> "Revised scope of alpha"]
RB_plain == [id |-> "b", standardNumber |-> "EN 2", title |-> "Beta"]
RB_full == [id |-> "b", standardNumber |-> "EN 2", title |-> "Beta", scope |-> "Scope of beta",
            source |-> "EU_HARMONISED", sdoName |-> "CEN",
            icsClassifications |-> <<"11.040", "11.100">>, icsCodes |-> <<"13.020">>,
            category |-> "Devices", subcategory |-> "Implants",
            regulationReference |-> "2017/745"]
RC == [id |-> "c", standardNumber |-> "IEC 3", title |-> "Gamma", scope |-> Null,
       source |-> "IEC_WEB", icsClassifications |-> <<>>, icsCodes |-> <<"35.240">>]
RN == [id |-> "n", standardNumber |-> "ISO 404", title |-> "Standard not located", scope |-> Null]
RNoTitle == [id |-> "m", standardNumber |-> "ISO 5", scope |-> "Scope of m"]
RNoNumber == [id |-> "k", title |-> "Kappa", scope |-> Null]
RNoId == [standardNumber |-> "ISO 6", title |-> "Zeta", scope |-> Null]
RD(n) == [id |-> "d" \o ToString(n), standardNumber |-> "ISO 10-" \o ToString(n),
          title |-> "Delta part " \o ToString(n), scope |-> Null]

\* the records the deduplication claims are checked over
RecordPool == {RA_null, RA_empty, RA_scope, RA_scope2, RB_plain, RB_full}

SeqUpTo(S, n) == UNION { [1..m -> S] : m \in 0..n }

\* JSON.parse(content): an array of records, another JSON value, or a SyntaxError
Array(recs) == [kind |-> "array", records |-> recs]
NotArray == [kind |-> "object", records |-> <<>>]
Invalid == [kind |-> "invalid", records |-> <<>>]

File(name, content) == [path |-> PathJoin(STANDARDS_DIR, name), content |-> content]

Name_a == <<"a">> \o JsonSuffix
Name_b == <<"b">> \o JsonSuffix
Name_big == <<"b", "i", "g">> \o JsonSuffix
Name_bad == <<"b", "a", "d">> \o JsonSuffix
Name_obj == <<"o", "b", "j">> \o JsonSuffix
Name_m == <<"m">> \o JsonSuffix
Name_nf == <<"i", "s", "o", "-">> \o NotFoundMark \o JsonSuffix
Name_txt == <<"a", ".", "t", "x", "t">>
Name_missing == <<"z">> \o JsonSuffix

FileSystems ==
    { << File(Name_a, Array(<<RA_null, RB_plain>>)),
         File(Name_b, Array(<<RA_scope, RC>>)),
         File(Name_nf, Array(<<RN>>)),
         File(Name_txt, Array(<<RB_full>>)) >>,
      << File(Name_a, Array(<<RA_scope2, RB_full>>)),
         File(Name_b, Array(<<RA_scope, RB_plain>>)) >>,
      << File(Name_a, Array(<<RA_scope>>)),
         File(Name_bad, Invalid),
         File(Name_obj, NotArray) >>,
      << File(Name_a, Array(<<RA_null>>)),
         File(Name_obj, NotArray),
         File(Name_m, Array(<<RNoTitle, RB_plain, RNoNumber>>)) >>,
      << File(Name_a, Array(<<RC>>)),
         File(Name_m, Array(<<RNoId, RA_null>>)) >>,
      << File(Name_a, Array(<<RA_scope>>)),
         File(Name_big, Array(<<RD(1), RD(2), RD(3), RD(4), RD(5), RD(6), RA_null>>)) >> }

\* process.argv[2] when given
FileArgs == { Name_a, PathJoin(STANDARDS_DIR, Name_nf), Name_nf, Name_missing }

\* file systems with two data files holding every short sequence of pool records
PoolFileSystems ==
    { << File(Name_a, Array(x)), File(Name_b, Array(y)) >> :
        x \in SeqUpTo(RecordPool, MaxFileLen), y \in SeqUpTo(RecordPool, MaxFileLen) }

\* an optional field: absent, or present with one of the values
Optional(f, values) == {<<>>} \cup {f :> v : v \in values}

\* records with standardNumber and title and every combination of absent,
\* empty and filled optional fields
NormRecords ==
    { [id |-> "e", standardNumber |-> "ISO 7", title |-> "Eta"]
        @@ sc @@ ic @@ cc @@ ca @@ su @@ rr :
        sc \in Optional("scope", {Null, "", "Scope of eta"}),
        ic \in Optional("icsClassifications", {<<>>, <<"">>, <<"11.040", "11.100">>}),
        cc \in Optional("icsCodes", {<<>>, <<"13.020">>}),
        ca \in Optional("category", {"", "Devices"}),
        su \in Optional("subcategory", {"", "Implants"}),
        rr \in Optional("regulationReference", {"", "2017/745"}) }

NormFileSystems == { << File(Name_a, Array(<<r>>)) >> : r \in NormRecords }

\* n distinct records, and the directories that hold them in one file, alone
\* or next to a file that repeats the first of them with a scope
Bulk(n) == [k \in 1..n |-> RD(k)]
RD1_scope == [RD(1) EXCEPT !.scope = "Scope of delta part 1"]

\* directories of one file whose records take two batches, or three
RaceFileSystems ==
    { << File(Name_big, Array(Bulk(n))) >> : n \in {BATCH_SIZE + 1, MaxBulk} }

\* the sizes tried: at, next to and between the multiples of the batch size
BulkSizes == {n \in 0..MaxBulk : n % BATCH_SIZE \in {0, 1, 50, BATCH_SIZE - 1}} \cup {MaxBulk}

BulkFileSystems ==
    { << File(Name_big, Array(Bulk(n))) >> : n \in BulkSizes }
      \cup { << File(Name_big, Array(Bulk(MaxBulk))), File(Name_m, Array(<<RD1_scope>>)) >> }

-----------------------------------------------------------------------------
(* Initial state: no ingestion has run, the index holds no collection *)

NoHandle == 0
NoResponse == [status |-> 0]
NoResults == [ids |-> <<>>, documents |-> <<>>, metadatas |-> <<>>, distances |-> <<>>]
NoCompletion == [kind |-> "none"]

InitRest ==
    /\ ipc = "idle"
    /\ files = <<>>
    /\ fidx = 0
    /\ allStandards = <<>>
    /\ unique = <<>>
    /\ handle = NoHandle
    /\ i = 0
    /\ adds = <<>>
    /\ ierr = "none"
    /\ run = 0
    /\ log = <<>>
    /\ mode = "none"
    /\ chroma = [exists |-> FALSE, gen |-> 0, docs |-> <<>>]
    /\ qpc = "idle"
    /\ question = ""
    /\ qhandle = NoHandle
    /\ results = NoResults
    /\ completion = NoCompletion
    /\ modelCalls = 0
    /\ response = NoResponse
    /\ requests = 0

Init == fsys \in FileSystems /\ InitRest

PipelineInit == fsys \in PoolFileSystems /\ InitRest

-----------------------------------------------------------------------------
(* ingest(): input resolution and loading *)

IngestReset ==
    /\ fidx' = 0
    /\ allStandards' = <<>>
    /\ unique' = <<>>
    /\ handle' = NoHandle
    /\ i' = 0
    /\ adds' = <<>>
    /\ ierr' = "none"
    /\ run' = run + 1
    /\ log' = <<>>

IngestIdle == ipc \in {"idle", "done", "failed"} /\ run < MaxRuns

\* no argument: enumerate the directory, in whatever order readdir lists it
IngestStartDir ==
    /\ IngestIdle
    /\ \E listing \in Perms(Readdir(fsys)) : files' = DirFiles(listing)
    /\ mode' = "dir"
    /\ ipc' = "read"
    /\ IngestReset
    /\ UNCHANGED <<fsys, chroma>> /\ UNCHANGED queryVars

\* single file mode
IngestStartFile ==
    /\ IngestIdle
    /\ \E fileArg \in FileArgs : files' = ArgFiles(fileArg)
    /\ mode' = "file"
    /\ ipc' = "read"
    /\ IngestReset
    /\ UNCHANGED <<fsys, chroma>> /\ UNCHANGED queryVars

Reading == ipc = "read" /\ fidx < Len(files)
CurrentFile == files[fidx + 1]

\* console.log(`Loaded ${allStandards.length} standards from ${files.length}
\* file(s) (${unique.length} unique after dedup)`)
LoadedLine(loaded, nfiles, nunique) ==
    [kind |-> "loaded", loaded |-> loaded, files |-> nfiles, unique |-> nunique]

\* console.log(`Ingested ${Math.min(i + BATCH_SIZE, unique.length)}/${unique.length}`)
IngestedLine(off, total) ==
    [kind |-> "ingested", done |-> Min(off + BATCH_SIZE, total), total |-> total]

\* console.log('Ingestion complete')
CompleteLine == [kind |-> "complete"]

\* console.error(error): the error, as thrown
ErrorLine(err) == [kind |-> "error", error |-> err]

IngestFail(err) ==
    /\ ipc' = "failed"
    /\ ierr' = err
    /\ log' = Append(log, ErrorLine(err))

\* readFile + JSON.parse give an array: push its elements
IngestReadArray ==
    /\ Reading
    /\ Exists(fsys, CurrentFile)
    /\ Content(fsys, CurrentFile).kind = "array"
    /\ allStandards' = allStandards \o Content(fsys, CurrentFile).records
    /\ fidx' = fidx + 1
    /\ UNCHANGED <<fsys, ipc, files, unique, handle, i, adds, ierr, run, mode, chroma>>
    /\ UNCHANGED log
    /\ UNCHANGED queryVars

\* JSON.parse gives a value that is not an array: nothing is pushed
IngestReadNotArray ==
    /\ Reading
    /\ Exists(fsys, CurrentFile)
    /\ Content(fsys, CurrentFile).kind = "object"
    /\ fidx' = fidx + 1
    /\ UNCHANGED <<fsys, ipc, files, allStandards, unique, handle, i, adds, ierr, run, mode,
                   chroma>>
    /\ UNCHANGED log
    /\ UNCHANGED queryVars

\* JSON.parse throws: the rejection leaves ingest() and reaches .catch
IngestReadInvalid ==
    /\ Reading
    /\ Exists(fsys, CurrentFile)
    /\ Content(fsys, CurrentFile).kind = "invalid"
    /\ IngestFail("SyntaxError")
    /\ UNCHANGED <<fsys, files, fidx, allStandards, unique, handle, i, adds, run, mode, chroma>>
    /\ UNCHANGED queryVars

\* fs.readFile rejects: no such file
IngestReadMissing ==
    /\ Reading
    /\ ~Exists(fsys, CurrentFile)
    /\ IngestFail("ENOENT")
    /\ UNCHANGED <<fsys, files, fidx, allStandards, unique, handle, i, adds, run, mode, chroma>>
    /\ UNCHANGED queryVars

\* all files read: the deduplication loop, up to the deleteCollection call
IngestDedup ==
    /\ ipc = "read"
    /\ fidx = Len(files)
    /\ unique' = Dedup(allStandards)
    /\ ipc' = "delete"
    /\ UNCHANGED <<fsys, files, fidx, allStandards, handle, i, adds, ierr, run, mode, chroma>>
    /\ log' = Append(log, LoadedLine(Len(allStandards), Len(files), Len(unique')))
    /\ UNCHANGED queryVars

-----------------------------------------------------------------------------
(* ingest(): replacing the collection *)

\* try { await client.deleteCollection(...) } catch {}: the collection existed
\* and is deleted
DeleteCollectionOk ==
    /\ ipc = "delete"
    /\ chroma.exists
    /\ chroma' = [chroma EXCEPT !.exists = FALSE, !.docs = <<>>]
    /\ ipc' = "create"
    /\ UNCHANGED <<fsys, files, fidx, allStandards, unique, handle, i, adds, ierr, run, mode>>
    /\ UNCHANGED log
    /\ UNCHANGED queryVars

\* there is no collection: the call rejects and the empty catch swallows it
DeleteCollectionAbsent ==
    /\ ipc = "delete"
    /\ ~chroma.exists
    /\ ipc' = "create"
    /\ UNCHANGED <<fsys, files, fidx, allStandards, unique, handle, i, adds, ierr, run, mode,
                   chroma>>
    /\ UNCHANGED log
    /\ UNCHANGED queryVars

\* the call rejects for another reason (connection, server error) while the
\* collection exists: the empty catch swallows that too
DeleteCollectionError ==
    /\ ipc = "delete"
    /\ chroma.exists
    /\ ipc' = "create"
    /\ UNCHANGED <<fsys, files, fidx, allStandards, unique, handle, i, adds, ierr, run, mode,
                   chroma>>
    /\ UNCHANGED log
    /\ UNCHANGED queryVars

\* getOrCreateCollection finds the collection
GetOrCreateExisting ==
    /\ ipc = "create"
    /\ chroma.exists
    /\ handle' = chroma.gen
    /\ ipc' = "add"
    /\ UNCHANGED <<fsys, files, fidx, allStandards, unique, i, adds, ierr, run, mode, chroma>>
    /\ UNCHANGED log
    /\ UNCHANGED queryVars

\* getOrCreateCollection creates an empty collection
GetOrCreateNew ==
    /\ ipc = "create"
    /\ ~chroma.exists
    /\ chroma' = [exists |-> TRUE, gen |-> chroma.gen + 1, docs |-> <<>>]
    /\ handle' = chroma.gen + 1
    /\ ipc' = "add"
    /\ UNCHANGED <<fsys, files, fidx, allStandards, unique, i, adds, ierr, run, mode>>
    /\ UNCHANGED log
    /\ UNCHANGED queryVars

\* getOrCreateCollection rejects
GetOrCreateError ==
    /\ ipc = "create"
    /\ IngestFail("ChromaConnectionError")
    /\ UNCHANGED <<fsys, files, fidx, allStandards, unique, handle, i, adds, run, mode, chroma>>
    /\ UNCHANGED queryVars

-----------------------------------------------------------------------------
(* ingest(): the batch loop *)

Adding == ipc = "add" /\ i < Len(unique)
CurrentAdd == AddArgs(BatchAt(unique, i))

StoredIds(docs) == {docs[k].id : k \in DOMAIN docs}

\* the metadata as the index keeps it: JSON drops keys whose value is undefined
StoredMetadata(m) == [k \in {f \in DOMAIN m : m[f] # Undefined} |-> m[k]]

\* mutant: an accepted add replaces what the collection holds by the batch
Appended_Replace(docs, a, r) ==
    [j \in DOMAIN a.ids |->
        [id |-> a.ids[j],
         document |-> a.documents[j],
         metadata |-> StoredMetadata(a.metadatas[j]),
         run |-> r]]

\* the records an accepted add appends; a record whose id is already stored is
\* left as stored
Appended(docs, a, r) ==
    LET fresh == SelectSeq([k \in DOMAIN a.ids |-> k], LAMBDA k : a.ids[k] \notin StoredIds(docs))
    IN docs \o [j \in DOMAIN fresh |->
                   [id |-> a.ids[fresh[j]],
                    document |-> a.documents[fresh[j]],
                    metadata |-> StoredMetadata(a.metadatas[fresh[j]]),
                    run |-> r]]

IdsValid(a) == \A k \in DOMAIN a.ids : a.ids[k] # Undefined
MetadataValid(a) ==
    \A k \in DOMAIN a.metadatas : \A f \in DOMAIN a.metadatas[k] : a.metadatas[k][f] # Undefined

AddCall(a, ok) == [ids |-> a.ids, documents |-> a.documents, metadatas |-> a.metadatas, ok |-> ok]

\* await collection.add(...) resolves
AddBatchOk ==
    /\ Adding
    /\ chroma.exists /\ chroma.gen = handle
    /\ IdsValid(CurrentAdd)
    /\ chroma' = [chroma EXCEPT !.docs = Appended(chroma.docs, CurrentAdd, run)]
    /\ adds' = Append(adds, AddCall(CurrentAdd, TRUE))
    /\ i' = i + BATCH_SIZE
    /\ UNCHANGED <<fsys, ipc, files, fidx, allStandards, unique, handle, ierr, run, mode>>
    /\ log' = Append(log, IngestedLine(i, Len(unique)))
    /\ UNCHANGED queryVars

\* the index refuses the record set: an id that is no string, and, depending
\* on the client's validation, an undefined metadata value or an id that is
\* already stored
AddBatchRejected ==
    /\ Adding
    /\ \/ ~IdsValid(CurrentAdd)
       \/ ~MetadataValid(CurrentAdd)
       \/ Range(CurrentAdd.ids) \cap StoredIds(chroma.docs) # {}
    /\ adds' = Append(adds, AddCall(CurrentAdd, FALSE))
    /\ IngestFail("ChromaValueError")
    /\ UNCHANGED <<fsys, files, fidx, allStandards, unique, handle, i, run, mode, chroma>>
    /\ UNCHANGED queryVars

\* the add fails in the embedding provider or in the index: nothing of the
\* batch is stored
AddBatchError ==
    /\ Adding
    /\ adds' = Append(adds, AddCall(CurrentAdd, FALSE))
    /\ IngestFail("ProviderError")
    /\ UNCHANGED <<fsys, files, fidx, allStandards, unique, handle, i, run, mode, chroma>>
    /\ UNCHANGED queryVars

\* the loop ends: 'Ingestion complete'
IngestComplete ==
    /\ ipc = "add"
    /\ i >= Len(unique)
    /\ ipc' = "done"
    /\ UNCHANGED <<fsys, files, fidx, allStandards, unique, handle, i, adds, ierr, run, mode,
                   chroma>>
    /\ log' = Append(log, CompleteLine)
    /\ UNCHANGED queryVars

-----------------------------------------------------------------------------
(* query.ts: askQuestion, and the POST /ask handler around it *)

Questions == {"Which standards apply to an implantable cardiac device?"}
NoQuestion == Undefined

\* the distances the index reports, in hundredths, by rank
RankDistances == <<0, 10, 35, 80, 120>>

Reverse(s) == [k \in DOMAIN s |-> s[Len(s) + 1 - k]]

\* the rankings of the stored records the index may report
Rankings(docs) == {docs, Reverse(docs)}

\* mutant: nResults is not passed on and the index applies its default of 10
QueryResults_DefaultN(docs, nResults) ==
    { [ ids |-> [k \in 1..Min(10, Len(r)) |-> r[k].id],
        documents |-> [k \in 1..Min(10, Len(r)) |-> r[k].document],
        metadatas |-> [k \in 1..Min(10, Len(r)) |-> r[k].metadata],
        distances |-> [k \in 1..Min(10, Len(r)) |-> 10 * k] ] :
      r \in Rankings(docs) }

\* collection.query({queryTexts: [question], nResults}): parallel arrays of
\* the nearest records, at most nResults and at most the stored ones
QueryResults(docs, nResults) ==
    { [ ids |-> [k \in 1..Min(nResults, Len(r)) |-> r[k].id],
        documents |-> [k \in 1..Min(nResults, Len(r)) |-> r[k].document],
        metadatas |-> [k \in 1..Min(nResults, Len(r)) |-> r[k].metadata],
        distances |-> [k \in 1..Min(nResults, Len(r)) |-> RankDistances[k]] ] :
      r \in Rankings(docs) }

\* metas[i]?.f
MetaGet(metas, k, f) ==
    IF k \in DOMAIN metas /\ f \in DOMAIN metas[k] THEN metas[k][f] ELSE Undefined

\* distances[i] || 0
DistanceAt(distances, k) == IF k \in DOMAIN distances THEN distances[k] ELSE 0

\* the `sources` of the returned QueryResult; relevance in hundredths
Sources(ids, metas, distances) ==
    [k \in DOMAIN ids |->
        [ id |-> ids[k],
          standardNumber |-> OrElse(MetaGet(metas, k, "standardNumber"), ids[k]),
          title |-> OrElse(MetaGet(metas, k, "title"), ""),
          relevance |-> 100 - DistanceAt(distances, k) ]]

\* what openai.chat.completions.create may resolve to
Completions ==
    { [choices |-> << [message |-> [content |-> "ISO 1 applies."]] >>],
      [choices |-> << [message |-> [content |-> ""]] >>],
      [choices |-> << [message |-> [content |-> Null]] >>],
      [choices |-> <<>>] }

\* completion.choices[0].message throws a TypeError when there is no choice
ReturnThrows(c) == Len(c.choices) = 0

\* a ?? b
Coalesce(a, b) == IF a = Null \/ a = Undefined THEN b ELSE a

\* the value of the return statement
QueryResult(c, res) ==
    [ answer |-> Coalesce(c.choices[1].message.content, ""),
      sources |-> Sources(res.ids, res.metadatas, res.distances) ]

BadRequest == [status |-> 400, body |-> [error |-> "question is required"]]
ServerError == [status |-> 500, body |-> [error |-> "Internal server error"]]
Ok(result) == [status |-> 200, body |-> result]

QueryIdle == qpc \in {"idle", "responded"} /\ requests < MaxRequests

QueryReset ==
    /\ qhandle' = NoHandle
    /\ results' = NoResults
    /\ completion' = NoCompletion
    /\ modelCalls' = 0
    /\ requests' = requests + 1

Respond(r) ==
    /\ response' = r
    /\ qpc' = "responded"

\* POST /ask without a question: 400
AskRejected ==
    /\ QueryIdle
    /\ \E q \in {NoQuestion, ""} : question' = q
    /\ QueryReset
    /\ Respond(BadRequest)
    /\ UNCHANGED fsys /\ UNCHANGED ingestVars /\ UNCHANGED chroma

\* what Express's default error handler sends when the handler's promise
\* rejects outside its try block: status 500 and the error rendered by the
\* framework (the stack trace unless NODE_ENV is production)
FrameworkError ==
    [status |-> 500,
     body |-> [stack |-> "TypeError: Cannot destructure property 'question' of 'req.body' as it is undefined."]]

\* POST /ask without a parsed body: under Express 5 (README, technology
\* stack) express.json() leaves req.body undefined and the destructuring in
\* the handler's first statement throws before the try block; under Express 4
\* req.body is {} and the request is the one of AskRejected
AskBodyUndefined ==
    /\ QueryIdle
    /\ question' = NoQuestion
    /\ QueryReset
    /\ Respond(FrameworkError)
    /\ UNCHANGED fsys /\ UNCHANGED ingestVars /\ UNCHANGED chroma

\* POST /ask with a question: askQuestion is called and awaits getCollection
AskAccepted ==
    /\ QueryIdle
    /\ \E q \in Questions : question' = q
    /\ QueryReset
    /\ response' = NoResponse
    /\ qpc' = "getCollection"
    /\ UNCHANGED fsys /\ UNCHANGED ingestVars /\ UNCHANGED chroma

\* client.getCollection resolves
GetCollectionOk ==
    /\ qpc = "getCollection"
    /\ chroma.exists
    /\ qhandle' = chroma.gen
    /\ qpc' = "query"
    /\ UNCHANGED <<question, results, completion, modelCalls, response, requests>>
    /\ UNCHANGED fsys /\ UNCHANGED ingestVars /\ UNCHANGED chroma

\* mutant: the collection is created when missing, as getOrCreateCollection does
GetCollection_CreateIfMissing ==
    /\ qpc = "getCollection"
    /\ ~chroma.exists
    /\ chroma' = [exists |-> TRUE, gen |-> chroma.gen + 1, docs |-> <<>>]
    /\ qhandle' = chroma.gen + 1
    /\ qpc' = "query"
    /\ UNCHANGED <<question, results, completion, modelCalls, response, requests>>
    /\ UNCHANGED fsys /\ UNCHANGED ingestVars

\* client.getCollection rejects, the collection does not exist: the handler
\* catches and answers 500
GetCollectionNotFound ==
    /\ qpc = "getCollection"
    /\ ~chroma.exists
    /\ Respond(ServerError)
    /\ UNCHANGED <<question, qhandle, results, completion, modelCalls, requests>>
    /\ UNCHANGED fsys /\ UNCHANGED ingestVars /\ UNCHANGED chroma

\* collection.query resolves
QueryOk ==
    /\ qpc = "query"
    /\ chroma.exists /\ chroma.gen = qhandle
    /\ results' \in QueryResults(chroma.docs, TOP_K)
    /\ qpc' = "complete"
    /\ UNCHANGED <<question, qhandle, completion, modelCalls, response, requests>>
    /\ UNCHANGED fsys /\ UNCHANGED ingestVars /\ UNCHANGED chroma

\* collection.query rejects (the collection was deleted meanwhile, or the
\* embedding of the question failed)
QueryError ==
    /\ qpc = "query"
    /\ Respond(ServerError)
    /\ UNCHANGED <<question, qhandle, results, completion, modelCalls, requests>>
    /\ UNCHANGED fsys /\ UNCHANGED ingestVars /\ UNCHANGED chroma

\* the answer model resolves and the return statement builds the QueryResult:
\* res.json(result)
AnswerReturned ==
    /\ qpc = "complete"
    /\ \E c \in Completions :
        /\ ~ReturnThrows(c)
        /\ completion' = c
        /\ Respond(Ok(QueryResult(c, results)))
    /\ modelCalls' = modelCalls + 1
    /\ UNCHANGED <<question, qhandle, results, requests>>
    /\ UNCHANGED fsys /\ UNCHANGED ingestVars /\ UNCHANGED chroma

\* the answer model resolves but the return statement throws: 500
AnswerThrows ==
    /\ qpc = "complete"
    /\ \E c \in Completions :
        /\ ReturnThrows(c)
        /\ completion' = c
    /\ Respond(ServerError)
    /\ modelCalls' = modelCalls + 1
    /\ UNCHANGED <<question, qhandle, results, requests>>
    /\ UNCHANGED fsys /\ UNCHANGED ingestVars /\ UNCHANGED chroma

\* the answer model call rejects: 500
AnswerModelError ==
    /\ qpc = "complete"
    /\ completion' = [kind |-> "rejected"]
    /\ Respond(ServerError)
    /\ modelCalls' = modelCalls + 1
    /\ UNCHANGED <<question, qhandle, results, requests>>
    /\ UNCHANGED fsys /\ UNCHANGED ingestVars /\ UNCHANGED chroma

-----------------------------------------------------------------------------
(* Specifications *)

Next ==
    \/ IngestStartDir \/ IngestStartFile
    \/ IngestReadArray \/ IngestReadNotArray \/ IngestReadInvalid \/ IngestReadMissing
    \/ IngestDedup
    \/ DeleteCollectionOk \/ DeleteCollectionAbsent \/ DeleteCollectionError
    \/ GetOrCreateExisting \/ GetOrCreateNew \/ GetOrCreateError
    \/ AddBatchOk \/ AddBatchRejected \/ AddBatchError
    \/ IngestComplete
    \/ AskRejected \/ AskBodyUndefined \/ AskAccepted
    \/ GetCollectionOk \/ GetCollectionNotFound
    \/ QueryOk \/ QueryError
    \/ AnswerReturned \/ AnswerThrows \/ AnswerModelError

Spec == Init /\ [][Next]_vars

\* one record with every combination of optional fields
NormalizeInit == fsys \in NormFileSystems /\ InitRest

\* a run over one record, from the directory listing to 'Ingestion complete'
NormalizeNext ==
    \/ IngestStartDir \/ IngestReadArray \/ IngestDedup
    \/ DeleteCollectionOk \/ DeleteCollectionAbsent \/ GetOrCreateNew
    \/ AddBatchOk \/ IngestComplete

NormalizeSpec == NormalizeInit /\ [][NormalizeNext]_vars

\* runs over up to MaxBulk records, with every outcome of the index calls
BatchInit == fsys \in BulkFileSystems /\ InitRest

BatchNext ==
    \/ IngestStartDir \/ IngestReadArray \/ IngestDedup
    \/ DeleteCollectionOk \/ DeleteCollectionAbsent \/ DeleteCollectionError
    \/ GetOrCreateExisting \/ GetOrCreateNew \/ GetOrCreateError
    \/ AddBatchOk \/ AddBatchRejected \/ AddBatchError
    \/ IngestComplete

BatchSpec == BatchInit /\ [][BatchNext]_vars

\* runs whose adds all resolve, with questions asked at any moment of them
RaceInit == fsys \in RaceFileSystems /\ InitRest

RaceNext ==
    \/ IngestStartDir \/ IngestReadArray \/ IngestDedup
    \/ DeleteCollectionOk \/ DeleteCollectionAbsent \/ DeleteCollectionError
    \/ GetOrCreateExisting \/ GetOrCreateNew
    \/ AddBatchOk \/ IngestComplete
    \/ AskAccepted
    \/ GetCollectionOk \/ GetCollectionNotFound
    \/ QueryOk \/ QueryError
    \/ AnswerReturned

RaceSpec == RaceInit /\ [][RaceNext]_vars

PipelineNext == IngestStartDir \/ IngestReadArray \/ IngestDedup

PipelineSpec == PipelineInit /\ [][PipelineNext]_vars

-----------------------------------------------------------------------------
(* Properties of deduplication and normalisation (PipelineSpec) *)

Deduplicated == ipc = "delete"

IdsOf(all) == {Get(all[k], "id") : k \in DOMAIN all}
WithId(all, id) == {k \in DOMAIN all : Get(all[k], "id") = id}
Scoped(all, id) == {k \in WithId(all, id) : Truthy(Get(all[k], "scope"))}
Least(S) == CHOOSE k \in S : \A j \in S : k <= j
Kept(u, id) == u[CHOOSE k \in DOMAIN u : Get(u[k], "id") = id]

\* C2 (as stated): of two records sharing an id, one with scope = null and one
\* with non-null scope, the deduplicated result holds the non-null-scope
\* record, in either input order.
C2_NonNullScopeWins ==
    Deduplicated =>
        \A a, b \in DOMAIN allStandards :
            ( /\ WithId(allStandards, Get(allStandards[a], "id")) = {a, b}
              /\ a # b
              /\ Get(allStandards[a], "scope") = Null
              /\ Get(allStandards[b], "scope") \notin {Null, Undefined} )
            => Kept(unique, Get(allStandards[b], "id")) = allStandards[b]

\* C2 (amended): of two records sharing an id, one without scope text (null,
\* absent or empty) and one with non-empty scope, the deduplicated result
\* holds the record with non-empty scope, in either input order.
C2_ScopeTextWins ==
    Deduplicated =>
        \A a, b \in DOMAIN allStandards :
            ( /\ WithId(allStandards, Get(allStandards[a], "id")) = {a, b}
              /\ a # b
              /\ ~Truthy(Get(allStandards[a], "scope"))
              /\ Truthy(Get(allStandards[b], "scope")) )
            => Kept(unique, Get(allStandards[b], "id")) = allStandards[b]

\* a two-record id whose record with scope text arrived second and replaced
\* the kept one, and another whose record with scope text arrived first
C2_Witness ==
    /\ Deduplicated
    /\ \E a, b \in DOMAIN allStandards :
        /\ a < b
        /\ WithId(allStandards, Get(allStandards[a], "id")) = {a, b}
        /\ ~Truthy(Get(allStandards[a], "scope"))
        /\ Truthy(Get(allStandards[b], "scope"))
        /\ Kept(unique, Get(allStandards[b], "id")) = allStandards[b]
    /\ \E a, b \in DOMAIN allStandards :
        /\ a < b
        /\ WithId(allStandards, Get(allStandards[a], "id")) = {a, b}
        /\ Truthy(Get(allStandards[a], "scope"))
        /\ ~Truthy(Get(allStandards[b], "scope"))
        /\ Kept(unique, Get(allStandards[a], "id")) = allStandards[a]

\* the concatenation of the array files of a file list
RECURSIVE Loaded(_, _)
Loaded(fs, fl) ==
    IF fl = <<>> THEN <<>>
    ELSE (IF Exists(fs, Head(fl)) /\ Content(fs, Head(fl)).kind = "array"
            THEN Content(fs, Head(fl)).records ELSE <<>>) \o Loaded(fs, Tail(fl))

\* the run's result had the directory been enumerated in stored order
ReferenceUnique == Dedup(Loaded(fsys, DirFiles(Readdir(fsys))))

DocsWithId(docs, id) == {d \in docs : d.id = id}

\* C3 (as stated): the set of IndexedDocuments is the same for every order in
\* which the files are enumerated.
C3_OrderIndependentDocs ==
    (Deduplicated /\ mode = "dir") => IndexedDocs(unique) = IndexedDocs(ReferenceUnique)

\* the records that can win an id: those with scope text, or all of them when
\* none has scope text
Contenders(all, id) ==
    IF Scoped(all, id) # {} THEN {all[k] : k \in Scoped(all, id)}
    ELSE {all[k] : k \in WithId(all, id)}

TieFree(all, id) == Cardinality(IndexedDocs(SetToSeqOf(Contenders(all, id)))) = 1

\* C3 (amended): for every enumeration order the result has the same ids, and
\* the same document for every id whose contending records (those with scope
\* text, or all records of the id when none has scope text) normalise to one
\* document.
C3_OrderIndependentUpToTies ==
    (Deduplicated /\ mode = "dir") =>
        /\ {d.id : d \in IndexedDocs(unique)} = {d.id : d \in IndexedDocs(ReferenceUnique)}
        /\ \A id \in IdsOf(allStandards) :
              TieFree(allStandards, id) =>
                  DocsWithId(IndexedDocs(unique), id)
                      = DocsWithId(IndexedDocs(ReferenceUnique), id)

\* the files were enumerated in another order than stored, and an id has a
\* record without scope text in the file read first and one with scope text
\* in the file read second
C3_Witness ==
    /\ Deduplicated /\ mode = "dir"
    /\ files # DirFiles(Readdir(fsys))
    /\ \E a, b \in DOMAIN allStandards :
        /\ a <= Len(Content(fsys, files[1]).records)
        /\ b > Len(Content(fsys, files[1]).records)
        /\ Get(allStandards[a], "id") = Get(allStandards[b], "id")
        /\ ~Truthy(Get(allStandards[a], "scope"))
        /\ Truthy(Get(allStandards[b], "scope"))
        /\ TieFree(allStandards, Get(allStandards[a], "id"))
        /\ Kept(unique, Get(allStandards[b], "id")) = allStandards[b]

\* C4: deduplication keeps, for every id of the input, exactly one record: the
\* first-seen one, unless it has no scope text and a later record of the id
\* has, in which case the first such later record; nothing else replaces it.
C4_FirstSeenUnlessScope ==
    Deduplicated =>
        /\ Len(unique) = Cardinality(IdsOf(allStandards))
        /\ {Get(unique[k], "id") : k \in DOMAIN unique} = IdsOf(allStandards)
        /\ \A id \in IdsOf(allStandards) :
              Kept(unique, id) =
                  IF Scoped(allStandards, id) = {}
                     \/ Least(WithId(allStandards, id)) \in Scoped(allStandards, id)
                    THEN allStandards[Least(WithId(allStandards, id))]
                    ELSE allStandards[Least(Scoped(allStandards, id))]

\* an id with three records: the first without scope text, replaced by the
\* second, which a third with other scope text did not replace
C4_Witness ==
    /\ Deduplicated
    /\ \E a, b, c \in DOMAIN allStandards :
        /\ a < b /\ b < c
        /\ {a, b, c} \subseteq WithId(allStandards, Get(allStandards[a], "id"))
        /\ a = Least(WithId(allStandards, Get(allStandards[a], "id")))
        /\ ~Truthy(Get(allStandards[a], "scope"))
        /\ Scoped(allStandards, Get(allStandards[a], "id")) # {}
        /\ b = Least(Scoped(allStandards, Get(allStandards[a], "id")))
        /\ Truthy(Get(allStandards[c], "scope"))
        /\ allStandards[c] # allStandards[b]
        /\ Kept(unique, Get(allStandards[a], "id")) = allStandards[b]

-----------------------------------------------------------------------------
(* Properties of ingestion (Spec) *)

\* what the index holds, without the history field
Corpus ==
    { [id |-> chroma.docs[k].id, text |-> chroma.docs[k].document,
       attributes |-> chroma.docs[k].metadata] : k \in DOMAIN chroma.docs }

\* the IndexedDocuments of `unique` as the index stores them
ExpectedCorpus(u) ==
    { [id |-> d.id, text |-> d.text, attributes |-> StoredMetadata(d.attributes)] :
        d \in IndexedDocs(u) }

\* C1: after an ingestion run that completed, the index holds exactly one
\* IndexedDocument per unique id of the run's deduplicated input and no
\* document written by an earlier run, whatever deleteCollection did.
C1_CorpusFullyReplaced ==
    ipc = "done" =>
        /\ Corpus = ExpectedCorpus(unique)
        /\ Len(chroma.docs) = Cardinality(IdsOf(allStandards))
        /\ \A k \in DOMAIN chroma.docs : chroma.docs[k].run = run

\* C5: a record lacking id, standardNumber or title is skipped: it is never
\* normalised into an add call (so no add can fail on it) and the index never
\* stores it.
C5_MalformedRecordsSkipped ==
    /\ \A k \in DOMAIN adds : IdsValid(adds[k]) /\ MetadataValid(adds[k])
    /\ \A k \in DOMAIN chroma.docs :
          {"standardNumber", "title"} \subseteq DOMAIN chroma.docs[k].metadata

\* C6: a file that does not parse as an array of records is skipped and never
\* aborts the run; the records of the other files are all loaded.
C6_MalformedFileSkipped ==
    /\ ierr # "SyntaxError"
    /\ ipc \in {"delete", "create", "add", "done"} => allStandards = Loaded(fsys, files)

\* the name of a path: what follows its last separator
FileName(p) ==
    LET seps == {k \in DOMAIN p : p[k] = "/"}
    IN IF seps = {} THEN p ELSE SubSeq(p, (CHOOSE k \in seps : \A j \in seps : j <= k) + 1, Len(p))

\* the documents of an add call derive from records of files the directory
\* filter lets through
FromListedFiles(c) ==
    \A k \in DOMAIN c.ids :
        \E e \in Range(fsys) :
            /\ InDir(e.path)
            /\ EndsWith(BaseName(e.path), JsonSuffix)
            /\ ~Includes(BaseName(e.path), NotFoundMark)
            /\ \E r \in Range(e.content.records) :
                /\ Get(r, "id") = c.ids[k]
                /\ buildDocument(r) = c.documents[k]
                /\ buildMetadata(r) = c.metadatas[k]

\* C7 (as stated): in no run, directory mode or single-file mode, is a file
\* whose name contains 'not-found' read.
C7_NotFoundNeverRead ==
    \A k \in 1..fidx : ~Includes(FileName(files[k]), NotFoundMark)

\* C7 (amended): a run that enumerates the configured directory never lists or
\* reads a file whose name contains 'not-found', and every document it hands
\* to the index derives from a record of a file without that mark.
C7_NotFoundSkippedInDirMode ==
    mode = "dir" =>
        /\ \A k \in DOMAIN files : ~Includes(FileName(files[k]), NotFoundMark)
        /\ \A k \in DOMAIN adds : FromListedFiles(adds[k])

\* a directory run completed over a directory that holds a 'not-found' .json
\* file, and wrote documents
C7_Witness ==
    /\ mode = "dir" /\ ipc = "done"
    /\ \E e \in Range(fsys) :
        /\ InDir(e.path)
        /\ Includes(BaseName(e.path), NotFoundMark)
        /\ EndsWith(BaseName(e.path), JsonSuffix)
        /\ e.content.kind = "array" /\ e.content.records # <<>>
    /\ chroma.docs # <<>>
    /\ \A k \in DOMAIN chroma.docs : chroma.docs[k].run = run

-----------------------------------------------------------------------------
(* Properties of the query pipeline (Spec) *)

\* C8: the sources of a returned QueryResult are as many as the index
\* returned, at most TOP_K and at most the documents of the corpus, and
\* sources[i] describes the i-th result of the index.
C8_TopKBound ==
    [][ /\ (qpc = "query" /\ qpc' = "complete") =>
              /\ Len(results'.ids) <= TOP_K
              /\ Len(results'.ids) <= Len(chroma.docs)
        /\ (qpc = "complete" /\ response'.status = 200) =>
              LET src == response'.body.sources
              IN /\ Len(src) = Len(results.ids)
                 /\ Len(src) <= TOP_K
                 /\ \A k \in DOMAIN src :
                      /\ src[k].id = results.ids[k]
                      /\ src[k].relevance = 100 - results.distances[k]
                      /\ src[k].standardNumber =
                            IF "standardNumber" \in DOMAIN results.metadatas[k]
                              THEN results.metadatas[k].standardNumber ELSE results.ids[k]
                      /\ src[k].title =
                            IF "title" \in DOMAIN results.metadatas[k]
                              THEN results.metadatas[k].title ELSE ""
      ]_vars

\* a 200 response with exactly TOP_K sources, in rank order, out of a larger
\* corpus
C8_Witness ==
    /\ qpc = "responded" /\ response.status = 200
    /\ chroma.exists /\ Len(chroma.docs) > TOP_K
    /\ Len(response.body.sources) = TOP_K
    /\ \A k \in 1..TOP_K : response.body.sources[k].id = results.ids[k]

\* C9: a question asked before any ingestion has run gets the generic 500;
\* the answer model is not invoked and no 200 is sent.
C9_EmptyCorpusFails ==
    run = 0 =>
        /\ response.status # 200
        /\ modelCalls = 0
        /\ (qpc = "responded" /\ Truthy(question)) => response = ServerError

\* a question was asked and answered with 500 before any ingestion run started
C9_Witness ==
    /\ run = 0
    /\ qpc = "responded" /\ Truthy(question)
    /\ response.status = 500

\* C10: whenever the answer model returned, the request gets a QueryResult;
\* missing content or a missing choice gives the answer ''.
C10_ReturnedCompletionGivesResult ==
    (qpc = "responded" /\ "choices" \in DOMAIN completion) =>
        /\ response.status = 200
        /\ (completion.choices = <<>> \/ completion.choices[1].message.content = Null)
              => response.body.answer = ""

\* C11: every POST /ask request gets one response: 400 if and only if the
\* question is absent or empty, and then the pipeline was not invoked; 200
\* carrying {answer, sources} on success; 500 with the fixed generic body on
\* any failure.
C11_HttpBoundary ==
    qpc = "responded" =>
        /\ response.status \in {200, 400, 500}
        /\ response.status = 400 <=> ~Truthy(question)
        /\ response.status = 400 => (modelCalls = 0 /\ qhandle = NoHandle)
        /\ response.status = 200 => DOMAIN response.body = {"answer", "sources"}
        /\ response.status = 500 => response = ServerError

-----------------------------------------------------------------------------
(* Properties of normalisation (NormalizeSpec) *)

HasText(s, f) == f \in DOMAIN s /\ s[f] # Null /\ s[f] # ""

RECURSIVE CommaList(_)
CommaList(codes) ==
    IF Len(codes) = 1 THEN codes[1]
    ELSE CommaList(SubSeq(codes, 1, Len(codes) - 1)) \o ", " \o codes[Len(codes)]

ListText(s, f) == IF f \in DOMAIN s /\ s[f] # <<>> THEN CommaList(s[f]) ELSE ""

\* the classification codes of a record: icsClassifications when that gives
\* any text, else icsCodes
CodesText(s) ==
    IF ListText(s, "icsClassifications") # "" THEN ListText(s, "icsClassifications")
    ELSE ListText(s, "icsCodes")

\* the text the claim describes: standard number, then one more line per
\* non-empty value, in the fixed order
ExpectedText(s) ==
    s.standardNumber
      \o "\n" \o s.title
      \o (IF HasText(s, "scope") THEN "\n" \o s.scope ELSE "")
      \o (IF CodesText(s) # "" THEN "\n" \o CodesText(s) ELSE "")
      \o (IF HasText(s, "category") THEN "\n" \o s.category ELSE "")
      \o (IF HasText(s, "subcategory") THEN "\n" \o s.subcategory ELSE "")
      \o (IF HasText(s, "regulationReference")
            THEN "\n" \o "EU Regulation " \o s.regulationReference ELSE "")

OptionalStrings == {"scope", "category", "subcategory", "regulationReference"}
OptionalArrays == {"icsClassifications", "icsCodes"}

AllOptionalEmpty(s) ==
    /\ \A f \in OptionalStrings : ~HasText(s, f)
    /\ \A f \in OptionalArrays : ListText(s, f) = ""

\* C12: the document of a record with standardNumber and title is the
\* newline-join, in the fixed order, of exactly its non-empty values; with
\* every optional field empty or absent it is standardNumber, newline, title.
C12_NormalizationOmission ==
    \A c \in DOMAIN adds :
        \A k \in DOMAIN adds[c].documents :
            LET s == unique[(c - 1) * BATCH_SIZE + k]
            IN /\ adds[c].documents[k] = ExpectedText(s)
               /\ AllOptionalEmpty(s) =>
                     adds[c].documents[k] = s.standardNumber \o "\n" \o s.title

\* a completed run over a record whose scope, icsClassifications and
\* category are present but empty and whose subcategory is absent: the stored
\* document has the four remaining parts and no blank line
C12_Witness ==
    /\ ipc = "done"
    /\ Len(unique) = 1
    /\ Get(unique[1], "scope") = ""
    /\ "icsClassifications" \in DOMAIN unique[1] /\ unique[1].icsClassifications = <<>>
    /\ Get(unique[1], "category") = ""
    /\ "subcategory" \notin DOMAIN unique[1]
    /\ Len(chroma.docs) = 1
    /\ chroma.docs[1].document = "ISO 7\nEta\n13.020\nEU Regulation 2017/745"

-----------------------------------------------------------------------------
(* Properties of the batch loop (BatchSpec) *)

\* ceil(n / BATCH_SIZE)
BatchCount(n) == (n + BATCH_SIZE - 1) \div BATCH_SIZE

\* the positions, over all add calls of the run, that carry the id
WrittenAt(id) ==
    { <<c, k>> \in (DOMAIN adds) \X (1..BATCH_SIZE) :
        k \in DOMAIN adds[c].ids /\ adds[c].ids[k] = id }

\* C13: the c-th add of a run covers documents [(c-1)*100, min(c*100, N)) of
\* the N unique documents, its ids, documents and metadatas have that length
\* and describe the same record position by position, an add is issued only
\* after the one before resolved, and a completed run has issued ceil(N/100)
\* adds that together write every unique document exactly once.
C13_BatchAlignment ==
    LET N == Len(unique)
    IN /\ \A c \in DOMAIN adds :
            LET from == (c - 1) * BATCH_SIZE
                to == Min(c * BATCH_SIZE, N)
                a == adds[c]
            IN /\ from < N
               /\ Len(a.ids) = to - from
               /\ Len(a.documents) = to - from
               /\ Len(a.metadatas) = to - from
               /\ \A k \in 1..(to - from) :
                     LET s == unique[from + k]
                     IN /\ a.ids[k] = s.id
                        /\ a.documents[k] = ExpectedText(s)
                        /\ a.metadatas[k].standardNumber = s.standardNumber
                        /\ a.metadatas[k].title = s.title
               /\ c < Len(adds) => a.ok
       /\ ipc = "done" =>
            /\ Len(adds) = BatchCount(N)
            /\ \A c \in DOMAIN adds : adds[c].ok
            /\ \A j \in 1..N : Cardinality(WrittenAt(unique[j].id)) = 1

\* a completed run over 250 unique documents: three adds, of 100, 100 and 50
C13_Witness ==
    /\ ipc = "done"
    /\ Len(unique) = 250
    /\ Len(adds) = 3
    /\ Len(adds[1].ids) = 100 /\ Len(adds[2].ids) = 100 /\ Len(adds[3].ids) = 50
    /\ adds[3].ids[50] = "d250"

\* the run ended in the rejection of an add
AddFailed == ipc = "failed" /\ adds # <<>> /\ ~adds[Len(adds)].ok

\* the documents of the adds that resolved before the failing one
CommittedCount == (Len(adds) - 1) * BATCH_SIZE

\* a line of the run's output that states both counts: the number committed
\* and, as a total or as a remainder, the number still to write
ReportsCounts(line, committed, pending) ==
    \/ /\ line.kind = "ingested"
       /\ line.done = committed
       /\ line.total - line.done = pending
    \/ /\ line.kind = "error"
       /\ {"committed", "pending"} \subseteq DOMAIN line
       /\ line.committed = committed
       /\ line.pending = pending

\* C14 (first two parts): when the add of batch k fails, no later batch is
\* attempted and the index holds exactly the documents of batches 0..k-1.
C14_PartialCorpusLeft ==
    AddFailed =>
        /\ \A c \in 1..(Len(adds) - 1) : adds[c].ok
        /\ i = CommittedCount
        /\ Corpus = ExpectedCorpus(SubSeq(unique, 1, CommittedCount))

\* C14 (last part): when the add of batch k fails, the output of the run states
\* how many documents were committed and how many remain.
C14_CountsReported ==
    AddFailed =>
        \E l \in DOMAIN log :
            ReportsCounts(log[l], CommittedCount, Len(unique) - CommittedCount)

\* C14: when the add of batch k fails mid-run, the run ends in error without
\* attempting a later batch, the index holds exactly the documents of batches
\* 0..k-1, and the run reports how many documents were committed and how many
\* remain pending.
C14_PartialIngestionReported == C14_PartialCorpusLeft /\ C14_CountsReported

-----------------------------------------------------------------------------
(* Properties of questions asked during ingestion (RaceSpec) *)

\* the ids of the records of the directory's one file, which are distinct: the
\* ids of the complete snapshot, in the order the batches write them
SnapshotIds == [k \in DOMAIN fsys[1].content.records |-> fsys[1].content.records[k].id]

\* what a retrieval returns from a collection holding the first n of them:
\* the TOP_K nearest, for either ranking of the documents
TopOf(n) ==
    LET held == SubSeq(SnapshotIds, 1, n)
    IN { [k \in 1..Min(TOP_K, n) |-> r[k]] : r \in {held, Reverse(held)} }

\* C15 (as stated): a question processed while ingestion runs retrieves from a
\* complete snapshot, never from an empty collection or from some of the
\* run's batches, and once a snapshot has been created its getCollection
\* never finds the collection missing.
C15_AtomicSnapshot ==
    /\ qpc = "complete" => results.ids \in TopOf(Len(SnapshotIds))
    /\ (qpc = "getCollection" /\ chroma.gen > 0) => chroma.exists

\* the run in progress deleted the prior collection and created its own
Recreated == \A k \in DOMAIN chroma.docs : chroma.docs[k].run = run

\* the documents a retrieval can reach at this moment of the ingestion: the
\* batches written so far while the batch loop fills a collection of its own,
\* the complete snapshot otherwise
VisibleCount ==
    IF ipc = "add" /\ Recreated THEN Min(i, Len(unique)) ELSE Len(SnapshotIds)

\* C15 (amended): the replacement is delete, recreate, then add batch by
\* batch.  A question's getCollection fails, with the generic 500, only while
\* the collection is missing: before the first run's create, or between the
\* delete and the create of a later run.  Its retrieval returns the nearest of
\* what the collection holds at that moment: the complete prior snapshot up to
\* the delete, and the batches written so far, none, some or all, from the
\* create on.
C15_ObservesIndexAsIs ==
    [][ /\ (qpc = "getCollection" /\ qpc' = "responded") =>
              /\ response' = ServerError
              /\ ipc = "create" \/ chroma.gen = 0
        /\ (qpc = "query" /\ qpc' = "complete") =>
              results'.ids \in TopOf(VisibleCount)
      ]_vars

\* a question retrieved while only the first of three batches was written:
\* the nearest document it got is the last of that batch
C15_Witness ==
    /\ Len(SnapshotIds) = 250
    /\ qpc = "responded"
    /\ response.status = 200
    /\ Len(response.body.sources) = TOP_K
    /\ response.body.sources[1].id = "d100"

====
